---------------------------- MODULE Spec2Model ----------------------------
(***************************************************************************)
(* State-machine model of markpdfdown's page conversion pipeline           *)
(* (src/main.py, src/core/LLMClient.py).                                   *)
(*                                                                         *)
(* Python strings are sequences of one-character strings, byte strings are *)
(* sequences of byte values, None is the empty sequence (every use of None *)
(* in main.py is a truthiness test, which the empty string fails too).     *)
(***************************************************************************)
EXTENDS Integers, Sequences, FiniteSets, TLC

(***************************************************************************)
(* Program constants and model bounds                                      *)
(***************************************************************************)

\* completion(..., retry_times=3)
retry_times == 3

\* Bound: the completion client fails at most this many times in one run.
MaxFailures == 3

\* Bound: number of pages of the larger PDF document of the input universe.
BigDocPages == 10

None == << >>

(***************************************************************************)
(* Characters and strings                                                  *)
(***************************************************************************)

Digits == <<"0", "1", "2", "3", "4", "5", "6", "7", "8", "9">>

Lower == <<"a", "b", "c", "d", "e", "f", "g", "h", "i", "j", "k", "l", "m",
           "n", "o", "p", "q", "r", "s", "t", "u", "v", "w", "x", "y", "z">>

Upper == <<"A", "B", "C", "D", "E", "F", "G", "H", "I", "J", "K", "L", "M",
           "N", "O", "P", "Q", "R", "S", "T", "U", "V", "W", "X", "Y", "Z">>

\* The character U+0060 (a grave accent cannot be written in a TLA+ string).
Backtick == "U+0060"

IndexOf(c, seq) == CHOOSE i \in 1..Len(seq) : seq[i] = c

InSeq(c, seq) == \E i \in 1..Len(seq) : seq[i] = c

\* ord(c): the code point Python compares characters by.
ord(c) ==
    IF InSeq(c, Digits) THEN 47 + IndexOf(c, Digits)
    ELSE IF InSeq(c, Upper) THEN 64 + IndexOf(c, Upper)
    ELSE IF InSeq(c, Lower) THEN 96 + IndexOf(c, Lower)
    ELSE CASE c = "\n" -> 10
           [] c = " "  -> 32
           [] c = "#"  -> 35
           [] c = "-"  -> 45
           [] c = "."  -> 46
           [] c = "/"  -> 47
           [] c = "<"  -> 60
           [] c = ">"  -> 62
           [] c = "\\" -> 92
           [] c = "_"  -> 95
           [] c = Backtick -> 96

\* str.lower() on one character.
lower_char(c) == IF InSeq(c, Upper) THEN Lower[IndexOf(c, Upper)] ELSE c

\* str.lower()
lower(s) == [i \in 1..Len(s) |-> lower_char(s[i])]

\* str.startswith / bytes.startswith
startswith(s, prefix) ==
    /\ Len(prefix) <= Len(s)
    /\ SubSeq(s, 1, Len(prefix)) = prefix

\* str.endswith
endswith(s, suffix) ==
    /\ Len(suffix) <= Len(s)
    /\ SubSeq(s, Len(s) - Len(suffix) + 1, Len(s)) = suffix

\* str.replace(old, new) for one-character old and new.
replace(s, old, new) == [i \in 1..Len(s) |-> IF s[i] = old THEN new ELSE s[i]]

\* Index of the last occurrence of character c in s, 0 when there is none
\* (str.rfind, 1-based).
rfind(s, c) ==
    IF InSeq(c, s)
    THEN CHOOSE i \in 1..Len(s) : s[i] = c /\ \A j \in (i+1)..Len(s) : s[j] # c
    ELSE 0

\* os.path.basename: what follows the last "/".
basename(p) == SubSeq(p, rfind(p, "/") + 1, Len(p))

\* os.path.splitext(p)[1]: from the last dot of the file name on, unless that
\* dot has only dots (or nothing) before it in the file name.
splitext_ext(p) ==
    LET sep == rfind(p, "/")
        dot == rfind(p, ".")
    IN  IF dot > sep /\ (\E k \in (sep+1)..(dot-1) : p[k] # ".")
        THEN SubSeq(p, dot, Len(p))
        ELSE << >>

\* os.path.join(a, b) for a relative b.
path_join(a, b) ==
    IF a = << >> \/ endswith(a, <<"/">>) THEN a \o b ELSE a \o <<"/">> \o b

\* Python's comparison of two strings: s < t (lexicographic by code point).
RECURSIVE str_lt(_, _)
str_lt(s, t) ==
    IF t = << >> THEN FALSE
    ELSE IF s = << >> THEN TRUE
    ELSE IF s[1] = t[1] THEN str_lt(Tail(s), Tail(t))
    ELSE ord(s[1]) < ord(t[1])

\* Insertion of x into the ordered list l, after the elements equal to it.
RECURSIVE insert_sorted(_, _)
insert_sorted(x, l) ==
    IF l = << >> THEN <<x>>
    ELSE IF str_lt(x, l[1]) THEN <<x>> \o l
    ELSE <<l[1]>> \o insert_sorted(x, Tail(l))

\* Variant of sorted() that keeps the order it was given.
sorted_Unsorted(l) == l

\* sorted(l) for a list of strings: ascending by code point, stable.
RECURSIVE sorted(_)
sorted(l) ==
    IF l = << >> THEN << >>
    ELSE insert_sorted(l[Len(l)], sorted(SubSeq(l, 1, Len(l) - 1)))

\* int(s) for the literals sign? digit+ (surrounding white space, underscores
\* and non-ASCII digits are outside the modelled inputs).
is_int_literal(s) ==
    LET body == IF s # << >> /\ s[1] \in {"-", "+"} THEN Tail(s) ELSE s
    IN  /\ body # << >>
        /\ \A i \in 1..Len(body) : InSeq(body[i], Digits)

RECURSIVE digits_value(_)
digits_value(s) ==
    IF s = << >> THEN 0
    ELSE 10 * digits_value(SubSeq(s, 1, Len(s) - 1)) + (IndexOf(s[Len(s)], Digits) - 1)

int(s) ==
    IF s[1] = "-" THEN 0 - digits_value(Tail(s))
    ELSE IF s[1] = "+" THEN digits_value(Tail(s))
    ELSE digits_value(s)

\* str(n) for n >= 0, as used in f-strings.
RECURSIVE str(_)
str(n) ==
    IF n < 10 THEN <<Digits[n + 1]>>
    ELSE str(n \div 10) \o <<Digits[(n % 10) + 1]>>

(***************************************************************************)
(* Input universe: command lines, files, document contents                 *)
(***************************************************************************)

Prog == <<"m", "a", "i", "n", ".", "p", "y">>

FilePdf   == <<"a", ".", "p", "d", "f">>
FilePng   == <<"a", ".", "p", "n", "g">>
FileTxt   == <<"a", ".", "t", "x", "t">>
FileNoExt == <<"a">>
\* A path that ends in .pdf and names no file.
MissingPdf == <<"m", ".", "p", "d", "f">>
OutMd      == <<"o", ".", "m", "d">>

ExistingFiles == {FilePdf, FilePng, FileTxt, FileNoExt}
PathTokens    == ExistingFiles \cup {MissingPdf}
PageTokens    == {<<"0">>, <<"1">>, <<"9">>, <<"x">>}

\* sys.argv: the program name, then the arguments of one of the two usages.
Argvs ==
    LET pages == {<< >>} \cup {<<s>> : s \in PageTokens}
                         \cup {<<s, e>> : s \in PageTokens, e \in PageTokens}
    IN  {<<Prog>> \o pg : pg \in pages}
        \cup {<<Prog, f>> \o pg : f \in PathTokens, pg \in pages}
        \cup {<<Prog, f, OutMd>> \o pg : f \in PathTokens, pg \in pages}

\* Document contents (byte strings).  The byte after the PDF signature is
\* the model's encoding of the document's page count.
PdfBytes(n) == <<37, 80, 68, 70, 45, n>>
JpegBytes   == <<255, 216, 255, 219, 0>>
\* A JFIF JPEG: starts FF D8 FF E0, which the signature table does not hold.
JfifBytes   == <<255, 216, 255, 224, 0>>
PngBytes    == <<137, 80, 78, 71, 13>>
BmpBytes    == <<66, 77, 0>>
EmptyBytes  == << >>

Contents == {PdfBytes(2), PdfBytes(BigDocPages), JpegBytes, JfifBytes,
             PngBytes, BmpBytes, EmptyBytes}

\* sys.stdin.buffer.name
StdinName == <<"<", "s", "t", "d", "i", "n", ">">>

\* The per-run working directory output/<timestamp> (one fixed timestamp).
OutputDir == <<"o", "u", "t">>

\* os.path.isfile
isfile(p) == p \in ExistingFiles

(***************************************************************************)
(* Command-line parsing (Page-Range Resolver)                              *)
(***************************************************************************)

\* start_page, end_page = int(tokens[0]), int(tokens[1]) in that order, each
\* only if present; ok is FALSE when one of the int() calls raises ValueError.
parse_pages(tokens) ==
    LET n == Len(tokens)
    IN  IF n >= 1 /\ ~is_int_literal(tokens[1])
        THEN [ok |-> FALSE, start_page |-> 1, end_page |-> 0]
        ELSE IF n >= 2 /\ ~is_int_literal(tokens[2])
        THEN [ok |-> FALSE, start_page |-> int(tokens[1]), end_page |-> 0]
        ELSE [ok |-> TRUE,
              start_page |-> IF n >= 1 THEN int(tokens[1]) ELSE 1,
              end_page   |-> IF n >= 2 THEN int(tokens[2]) ELSE 0]

\* The first up-to-two elements of argv from Python index k on.
page_tokens(argv, k) ==
    SubSeq(argv, k + 1, IF Len(argv) < k + 2 THEN Len(argv) ELSE k + 2)

\* Lines 94-128.  status: "ok"; "exit" (the ValueError of the standard-input
\* mode, caught: exit(1)); "ValueError" (file-path mode: no handler).
parse_args(argv) ==
    LET n    == Len(argv)
        a(k) == argv[k + 1]
        res(path, out, pg, caught) ==
            [status      |-> IF pg.ok THEN "ok"
                             ELSE IF caught THEN "exit" ELSE "ValueError",
             input_path  |-> path,
             output_path |-> out,
             start_page  |-> pg.start_page,
             end_page    |-> pg.end_page]
    IN  IF n >= 2
        THEN IF isfile(a(1)) \/ endswith(a(1), <<".", "p", "d", "f">>)
             THEN IF n >= 3
                  THEN IF endswith(a(2), <<".", "m", "d">>)
                       THEN res(a(1), a(2), parse_pages(page_tokens(argv, 3)), FALSE)
                       ELSE res(a(1), None, parse_pages(page_tokens(argv, 2)), FALSE)
                  ELSE res(a(1), None, parse_pages(<< >>), FALSE)
             ELSE res(None, None, parse_pages(page_tokens(argv, 1)), TRUE)
        ELSE res(None, None, parse_pages(<< >>), TRUE)

(***************************************************************************)
(* Input Classifier                                                        *)
(***************************************************************************)

\* The extension the signature table gives the leading bytes, << >> when no
\* signature matches (lines 155-170).
sniff(data) ==
    IF startswith(data, <<37, 80, 68, 70, 45>>) THEN <<".", "p", "d", "f">>
    ELSE IF startswith(data, <<255, 216, 255, 219>>) THEN <<".", "j", "p", "g">>
    ELSE IF startswith(data, <<137, 80, 78, 71>>) THEN <<".", "p", "n", "g">>
    ELSE IF startswith(data, <<66, 77>>) THEN <<".", "b", "m", "p">>
    ELSE << >>

\* Variant of classify that also looks at the bytes when the extension is
\* not one of .pdf, .jpg, .png, .bmp.
classify_SniffsUnrecognized(filename, data) ==
    LET ext == splitext_ext(filename)
        known == {<<".", "p", "d", "f">>, <<".", "j", "p", "g">>,
                  <<".", "p", "n", "g">>, <<".", "b", "m", "p">>}
    IN  IF ext \notin known \/ filename = StdinName
        THEN IF sniff(data) # << >>
             THEN [ok |-> TRUE, input_ext |-> sniff(data)]
             ELSE [ok |-> FALSE, input_ext |-> ext]
        ELSE [ok |-> TRUE, input_ext |-> ext]

\* Variant of classify that takes bytes of no known signature for a JPEG.
classify_UnknownAsJpeg(filename, data) ==
    LET ext == splitext_ext(filename)
    IN  IF ext = << >> \/ filename = StdinName
        THEN IF sniff(data) # << >>
             THEN [ok |-> TRUE, input_ext |-> sniff(data)]
             ELSE [ok |-> TRUE, input_ext |-> <<".", "j", "p", "g">>]
        ELSE [ok |-> TRUE, input_ext |-> ext]

\* Lines 150-173: the extension of the file name, or, when there is none or
\* the input came from standard input, the extension the leading bytes stand
\* for; ok is FALSE on the "Unsupported file type" branch.
classify(filename, data) ==
    LET ext == splitext_ext(filename)
    IN  IF ext = << >> \/ filename = StdinName
        THEN IF sniff(data) # << >>
             THEN [ok |-> TRUE, input_ext |-> sniff(data)]
             ELSE [ok |-> FALSE, input_ext |-> ext]
        ELSE [ok |-> TRUE, input_ext |-> ext]

(***************************************************************************)
(* Rendering collaborator (core/FileWorker.py, outside the sources)        *)
(***************************************************************************)

PdfExt == <<".", "p", "d", "f">>

\* The document types of the specification: PDF, JPEG, PNG, BMP.
RecognizedExts == {PdfExt, <<".", "j", "p", "g">>, <<".", "p", "n", "g">>,
                   <<".", "b", "m", "p">>}

\* Number of pages of a document: an image is one page, a PDF has the count
\* its content carries, other bytes under a .pdf name have none.
num_pages(ext, data) ==
    IF ext = PdfExt
    THEN IF startswith(data, <<37, 80, 68, 70, 45>>) /\ Len(data) >= 6
         THEN data[6] ELSE 0
    ELSE 1

\* create_worker(path, start_page, end_page): ok is FALSE when it raises
\* ValueError (unsupported type, or a page range outside the document);
\* pages are the page numbers the worker will render, ascending.
create_worker(path, data, start, end) ==
    LET ext  == splitext_ext(path)
        n    == num_pages(ext, data)
        last == IF end = 0 THEN n ELSE end
    IN  IF ext \notin RecognizedExts
        THEN [ok |-> FALSE, pages |-> << >>]
        ELSE IF ext # PdfExt
        THEN [ok |-> TRUE, pages |-> <<1>>]
        ELSE IF 1 <= start /\ start <= last /\ last <= n
        THEN [ok |-> TRUE, pages |-> [k \in 1..(last - start + 1) |-> start + k - 1]]
        ELSE [ok |-> FALSE, pages |-> << >>]

\* The image file a worker writes for page number p.
page_image(p) ==
    path_join(OutputDir, <<"p", "a", "g", "e", "_">> \o str(p)
                         \o <<".", "p", "n", "g">>)

\* The page number in the name of a page image (inverse of page_image):
\* the digits between "<dir>?page_" and ".png".
page_number(path) ==
    int(SubSeq(path, Len(OutputDir) + 7, Len(path) - 4))

Reverse(l) == [k \in 1..Len(l) |-> l[Len(l) + 1 - k]]

Rotate(l, k) == SubSeq(l, k + 1, Len(l)) \o SubSeq(l, 1, k)

\* Bound: the return orders tried are the rotations of the ascending order
\* by at most this many places, and their reversals.
MaxRotation == 1

\* Orders in which convert_to_images may return the paths of a worker.
return_orders(paths) ==
    LET ks == {k \in 0..MaxRotation : k = 0 \/ k < Len(paths)}
    IN  {Rotate(paths, k) : k \in ks} \cup {Reverse(Rotate(paths, k)) : k \in ks}

(***************************************************************************)
(* Completion: model responses and Markdown unwrapping                     *)
(***************************************************************************)

Fence == <<Backtick, Backtick, Backtick>>

RespPlain  == <<"#", " ", "A">>
RespFenced == Fence \o <<"m", "a", "r", "k", "d", "o", "w", "n", "\n">>
                    \o RespPlain \o <<"\n">> \o Fence

\* Texts the model may answer a page with.
Responses == {RespPlain, RespFenced}

\* remove_markdown_warp(text, language) of core/Util.py (outside the
\* sources): drops an enclosing fence whose tag is the language, any case.
remove_markdown_warp(text, language) ==
    LET open  == Fence \o language \o <<"\n">>
        close == <<"\n">> \o Fence
    IN  IF /\ Len(text) >= Len(open) + Len(close)
           /\ startswith(lower(text), lower(open))
           /\ endswith(text, close)
        THEN SubSeq(text, Len(open) + 1, Len(text) - Len(close))
        ELSE text

Markdown == <<"m", "a", "r", "k", "d", "o", "w", "n">>

(***************************************************************************)
(* Completion client: endpoint normalization and request headers           *)
(***************************************************************************)

\* str.find(sub), 1-based: the first position sub occurs at, 0 when nowhere.
find(s, sub) ==
    LET at == {i \in 1..(Len(s) - Len(sub) + 1) :
                   SubSeq(s, i, i + Len(sub) - 1) = sub}
    IN  IF at = {} THEN 0 ELSE CHOOSE i \in at : \A j \in at : i <= j

\* sub in s
contains(s, sub) == find(s, sub) # 0

\* s.split(sep)[0]: what precedes the first occurrence of sep, s without one.
split_first(s, sep) ==
    IF contains(s, sep) THEN SubSeq(s, 1, find(s, sep) - 1) ELSE s

SlashModels == <<"/", "m", "o", "d", "e", "l", "s">>
SlashV1     == <<"/", "v", "1">>
DefaultBase == <<"h", "t", "t", "p", "s", ":", "/", "/", "a", "p", "i", ".", "o", "p", "e", "n", "a", "i", ".", "c", "o", "m">>
OpenRouter  == <<"o", "p", "e", "n", "r", "o", "u", "t", "e", "r", ".", "a", "i">>

\* main.py lines 40-47: the base URL completion() hands to the client, from
\* the value of OPENAI_API_BASE (None when unset).
main_base_url(env) ==
    LET cut == IF env # None /\ contains(env, SlashModels)
               THEN split_first(env, SlashModels) ELSE env
    IN  IF cut = << >> THEN DefaultBase ELSE cut

\* Variant of client_base_url that appends /v1 whatever the URL ends in.
client_base_url_AlwaysAppends(url) ==
    LET cut == IF contains(url, SlashModels)
               THEN split_first(url, SlashModels) ELSE url
    IN  IF endswith(cut, <<"/">>) THEN cut \o <<"v", "1">>
        ELSE cut \o SlashV1

\* LLMClient.__init__, lines 21-31: self.base_url.
client_base_url(url) ==
    LET cut == IF contains(url, SlashModels)
               THEN split_first(url, SlashModels) ELSE url
    IN  IF endswith(cut, SlashV1) THEN cut
        ELSE IF endswith(cut, <<"/">>) THEN cut \o <<"v", "1">>
        ELSE cut \o SlashV1

\* The whole normalization: OPENAI_API_BASE to the client's self.base_url.
normalize(env) == client_base_url(main_base_url(env))

AppHeaders == {"X-Title", "HTTP-Referer"}

\* LLMClient.completion, lines 81-98: the extra headers of the request.
request_headers(url) ==
    IF contains(lower(url), OpenRouter) THEN AppHeaders ELSE {}

\* Base URLs an operator may configure: a scheme and host, then path parts.
Hosts == { <<"h", "t", "t", "p", "s", ":", "/", "/", "h", "o", "s", "t">>,
           <<"h", "t", "t", "p", "s", ":", "/", "/", "m", "o", "d", "e", "l", "s", ".", "h", "o", "s", "t">>,
           <<"h", "t", "t", "p", "s", ":", "/", "/", "o", "p", "e", "n", "r", "o", "u", "t", "e", "r", ".", "a", "i">>,
           <<"h", "t", "t", "p", "s", ":", "/", "/", "O", "p", "e", "n", "R", "o", "u", "t", "e", "r", ".", "A", "I">> }

PathParts == { <<"/">>, SlashV1, SlashModels, <<"/", "a", "p", "i">>, <<"/", "o", "p", "e", "n", "r", "o", "u", "t", "e", "r", ".", "a", "i">> }

\* Bound: number of path parts after the host.
MaxUrlParts == 2

RECURSIVE PathsUpTo(_)
PathsUpTo(n) ==
    IF n = 0 THEN {<< >>}
    ELSE PathsUpTo(n - 1)
         \cup {p \o q : p \in PathsUpTo(n - 1), q \in PathParts}

BaseUrls == {None} \cup {h \o p : h \in Hosts, p \in PathsUpTo(MaxUrlParts)}
                   \cup {SlashModels}

(***************************************************************************)
(* State of one run of main.py                                             *)
(***************************************************************************)

VARIABLES
    pc,                 \* position in __main__
    api_key,            \* OPENAI_API_KEY is set to a non-empty value
    api_base,           \* OPENAI_API_BASE, None when unset
    base_url,           \* self.base_url of the client completion() built
    extra_headers,      \* extra_headers of the last request sent
    input_path, output_path, start_page, end_page,
    input_data, input_filename, input_ext,
    output_dir_exists,  \* the working directory is on disk
    temp_input_exists,  \* the materialized input is on disk
    worker_created,     \* create_worker has returned a worker
    worker_pages,       \* the page numbers the worker renders
    rendered,           \* convert_to_images has been called
    img_paths,          \* what convert_to_images returned
    queue,              \* sorted(img_paths), the list the for loop walks
    idx,                \* 1-based position of the for loop in queue
    img_path,           \* the path handed to the current completion call
    attempts,           \* iterations of the retry loop of the current call
    outcomes,           \* result of each attempt of the current call
    sleeps,             \* time.sleep(0.5) calls of the current call
    llm_failed_logged,  \* "LLM call failed" records of the current call
    api_failed_logged,  \* "API request failed" records of the current call
    response,           \* what the current completion call returned
    failures,           \* failed client calls of the whole run
    markdown,           \* the accumulated Markdown
    processed,          \* pages whose fragment has been appended, in order:
                        \* [path, exhausted]
    out_file,           \* the output file: [exists, text]
    stdout,             \* what has been printed
    errlog,             \* the distinct error messages logged
    uncaught,           \* the exception that ended the run with a traceback
    exit_code           \* process exit status, -1 while running

envVars  == <<api_key, api_base>>
clientVars == <<base_url, extra_headers>>
argVars  == <<input_path, output_path, start_page, end_page>>
inVars   == <<input_data, input_filename, input_ext>>
fsVars   == <<output_dir_exists, temp_input_exists>>
wkVars   == <<worker_created, worker_pages, rendered, img_paths, queue>>
loopVars == <<idx, img_path>>
callVars == <<attempts, outcomes, sleeps, llm_failed_logged,
              api_failed_logged, response>>
mdVars   == <<markdown, processed>>
outVars  == <<out_file, stdout>>
endVars  == <<errlog, uncaught, exit_code>>

vars == <<pc, envVars, clientVars, argVars, inVars, fsVars, wkVars, loopVars, callVars,
          failures, mdVars, outVars, endVars>>

NoException == ""

\* Before the first statement of __main__.
InitRun ==
    /\ base_url = None /\ extra_headers = {}
    /\ input_path = None /\ output_path = None
    /\ start_page = 1 /\ end_page = 0
    /\ input_data = << >> /\ input_filename = << >> /\ input_ext = << >>
    /\ output_dir_exists = FALSE /\ temp_input_exists = FALSE
    /\ worker_created = FALSE /\ worker_pages = << >>
    /\ rendered = FALSE /\ img_paths = << >> /\ queue = << >>
    /\ idx = 1 /\ img_path = << >>
    /\ attempts = 0 /\ outcomes = << >> /\ sleeps = 0
    /\ llm_failed_logged = 0 /\ api_failed_logged = 0
    /\ response = << >>
    /\ failures = 0
    /\ markdown = << >> /\ processed = << >>
    /\ out_file = [exists |-> FALSE, text |-> << >>]
    /\ stdout = << >>
    /\ errlog = {}
    /\ uncaught = NoException
    /\ exit_code = -1

\* A run of main.py with OPENAI_API_BASE unset, with or without an API key.
Init ==
    /\ pc = "parse_args"
    /\ api_key \in BOOLEAN
    /\ api_base = None
    /\ InitRun

\* exit(code), after logging the error messages msgs.
Exit(code, msgs) ==
    /\ pc' = "exited"
    /\ exit_code' = code
    /\ errlog' = errlog \cup msgs
    /\ uncaught' = uncaught

\* An exception no handler catches: traceback, exit status 1.
Crash(exception) ==
    /\ pc' = "exited"
    /\ exit_code' = 1
    /\ errlog' = errlog
    /\ uncaught' = exception

(***************************************************************************)
(* __main__, lines 94-188: from the command line to the rendered pages     *)
(***************************************************************************)

\* Lines 94-128.
ParseArgs ==
    /\ pc = "parse_args"
    /\ \E argv \in Argvs :
         LET r == parse_args(argv)
         IN  /\ input_path' = r.input_path
             /\ output_path' = r.output_path
             /\ start_page' = r.start_page
             /\ end_page' = r.end_page
             /\ IF r.status = "ok"
                THEN pc' = "read_input" /\ UNCHANGED endVars
                ELSE IF r.status = "exit"
                THEN Exit(1, {"Invalid page number", "Usage"})
                ELSE Crash("ValueError")
    /\ UNCHANGED <<envVars, clientVars, inVars, fsVars, wkVars, loopVars, callVars,
                   failures, mdVars, outVars>>

\* Lines 130-144.
ReadInput ==
    /\ pc = "read_input"
    /\ IF input_path # None
       THEN IF isfile(input_path)
            THEN /\ \E data \in Contents : input_data' = data
                 /\ input_filename' = basename(input_path)
                 /\ pc' = "make_output_dir"
                 /\ UNCHANGED endVars
            ELSE /\ Crash("FileNotFoundError")
                 /\ UNCHANGED <<input_data, input_filename>>
       ELSE \E data \in Contents :
              /\ input_data' = data
              /\ IF data = << >>
                 THEN /\ Exit(1, {"No input data received", "Usage"})
                      /\ UNCHANGED input_filename
                 ELSE /\ input_filename' = basename(StdinName)
                      /\ pc' = "make_output_dir"
                      /\ UNCHANGED endVars
    /\ UNCHANGED <<envVars, clientVars, argVars, input_ext, fsVars, wkVars, loopVars,
                   callVars, failures, mdVars, outVars>>

\* Lines 146-148.
MakeOutputDir ==
    /\ pc = "make_output_dir"
    /\ output_dir_exists' = TRUE
    /\ pc' = "classify"
    /\ UNCHANGED <<envVars, clientVars, argVars, inVars, temp_input_exists, wkVars,
                   loopVars, callVars, failures, mdVars, outVars, endVars>>

\* Lines 150-173.
Classify ==
    /\ pc = "classify"
    /\ LET c == classify(input_filename, input_data)
       IN  /\ input_ext' = c.input_ext
           /\ IF c.ok
              THEN pc' = "materialize" /\ UNCHANGED endVars
              ELSE Exit(1, {"Unsupported file type"})
    /\ UNCHANGED <<envVars, clientVars, argVars, input_data, input_filename, fsVars,
                   wkVars, loopVars, callVars, failures, mdVars, outVars>>

\* temp_input_path of line 175.
temp_input_path == path_join(OutputDir, <<"i", "n", "p", "u", "t">> \o input_ext)

\* Lines 175-177.
Materialize ==
    /\ pc = "materialize"
    /\ temp_input_exists' = TRUE
    /\ pc' = "create_worker"
    /\ UNCHANGED <<envVars, clientVars, argVars, inVars, output_dir_exists, wkVars,
                   loopVars, callVars, failures, mdVars, outVars, endVars>>

\* Lines 179-184.
CreateWorker ==
    /\ pc = "create_worker"
    /\ LET w == create_worker(temp_input_path, input_data, start_page, end_page)
       IN  IF w.ok
           THEN /\ worker_created' = TRUE
                /\ worker_pages' = w.pages
                /\ pc' = "convert_to_images"
                /\ UNCHANGED endVars
           ELSE /\ Exit(1, {"ValueError"})
                /\ UNCHANGED <<worker_created, worker_pages>>
    /\ UNCHANGED <<envVars, clientVars, argVars, inVars, fsVars, rendered, img_paths,
                   queue, loopVars, callVars, failures, mdVars, outVars>>

\* Separators a collaborator may build its paths with.
PathSeps == {"/", "\\"}

\* Lines 186-192: the pages are rendered, and the loop is set up over the
\* sorted paths.
ConvertToImages ==
    /\ pc = "convert_to_images"
    /\ \E sep \in PathSeps :
         \E order \in return_orders([k \in 1..Len(worker_pages) |->
                                       replace(page_image(worker_pages[k]), "/", sep)]) :
            /\ img_paths' = order
            /\ queue' = sorted(order)
    /\ rendered' = TRUE
    /\ idx' = 1
    /\ markdown' = << >>
    /\ pc' = "loop"
    /\ UNCHANGED <<envVars, clientVars, argVars, inVars, fsVars, worker_created,
                   worker_pages, img_path, callVars, failures, processed,
                   outVars, endVars>>

(***************************************************************************)
(* The page loop and the retry orchestrator                                *)
(***************************************************************************)

\* Lines 192-194, 85 and 34-58: the loop takes the next path, and
\* completion() starts: without an API key it logs and exits, otherwise it
\* builds the client and enters the retry loop.
NextPage ==
    /\ pc = "loop"
    /\ idx <= Len(queue)
    /\ img_path' = replace(queue[idx], "\\", "/")
    /\ IF ~api_key
       THEN /\ Exit(1, {"Please set the OPENAI_API_KEY environment variables"})
            /\ UNCHANGED <<callVars, base_url>>
       ELSE /\ base_url' = normalize(api_base)
            /\ attempts' = 0
            /\ outcomes' = << >>
            /\ sleeps' = 0
            /\ llm_failed_logged' = 0
            /\ api_failed_logged' = 0
            /\ response' = << >>
            /\ pc' = "attempt"
            /\ UNCHANGED endVars
    /\ UNCHANGED <<envVars, extra_headers, argVars, inVars, fsVars, wkVars, idx, failures,
                   mdVars, outVars>>

\* Lines 60-63: client.completion returns, and completion() returns its
\* response at once.
AttemptReturns ==
    /\ pc = "attempt"
    /\ attempts < retry_times
    /\ \E text \in Responses :
         /\ outcomes' = Append(outcomes, [ok |-> TRUE, text |-> text, kind |-> "none"])
         /\ response' = text
    /\ extra_headers' = request_headers(base_url)
    /\ attempts' = attempts + 1
    /\ pc' = "returned"
    /\ UNCHANGED <<envVars, base_url, argVars, inVars, fsVars, wkVars, loopVars, sleeps,
                   llm_failed_logged, api_failed_logged, failures, mdVars,
                   outVars, endVars>>

\* Where client.completion can raise: in encode_image (LLMClient.py lines
\* 64-72, outside its try) or in the API call (lines 79-103, logged there
\* and raised again).
FailureKinds == {"encode_image", "api"}

\* Variant of AttemptRaises whose handler does not sleep.
AttemptRaises_NoBackoff ==
    /\ pc = "attempt"
    /\ attempts < retry_times
    /\ failures < MaxFailures
    /\ \E kind \in FailureKinds :
         /\ outcomes' = Append(outcomes, [ok |-> FALSE, text |-> << >>, kind |-> kind])
         /\ extra_headers' = IF kind = "api" THEN request_headers(base_url)
                             ELSE extra_headers
         /\ api_failed_logged' = api_failed_logged + (IF kind = "api" THEN 1 ELSE 0)
         /\ errlog' = errlog \cup {"LLM call failed"}
                             \cup (IF kind = "api" THEN {"API request failed"} ELSE {})
    /\ llm_failed_logged' = llm_failed_logged + 1
    /\ sleeps' = sleeps
    /\ failures' = failures + 1
    /\ attempts' = attempts + 1
    /\ IF attempts + 1 = retry_times
       THEN response' = << >> /\ pc' = "returned"
       ELSE response' = response /\ pc' = "attempt"
    /\ UNCHANGED <<envVars, base_url, argVars, inVars, fsVars, wkVars, loopVars, mdVars,
                   outVars, uncaught, exit_code>>

\* Variant of AttemptRaises that raises the last failure to the caller
\* instead of returning "".
AttemptRaises_RaisesLast ==
    /\ pc = "attempt"
    /\ attempts < retry_times
    /\ failures < MaxFailures
    /\ \E kind \in FailureKinds :
         /\ outcomes' = Append(outcomes, [ok |-> FALSE, text |-> << >>, kind |-> kind])
         /\ extra_headers' = IF kind = "api" THEN request_headers(base_url)
                             ELSE extra_headers
         /\ api_failed_logged' = api_failed_logged + (IF kind = "api" THEN 1 ELSE 0)
         /\ errlog' = errlog \cup {"LLM call failed"}
                             \cup (IF kind = "api" THEN {"API request failed"} ELSE {})
    /\ llm_failed_logged' = llm_failed_logged + 1
    /\ sleeps' = sleeps + 1
    /\ failures' = failures + 1
    /\ attempts' = attempts + 1
    /\ response' = response
    /\ IF attempts + 1 = retry_times
       THEN pc' = "exited" /\ exit_code' = 1 /\ uncaught' = "Exception"
       ELSE pc' = "attempt" /\ UNCHANGED <<uncaught, exit_code>>
    /\ UNCHANGED <<envVars, base_url, argVars, inVars, fsVars, wkVars, loopVars, mdVars,
                   outVars>>

\* Variant of AttemptRaises that goes on with the next page after a
\* failure, its retry loop still running.
AttemptRaises_MovesOn ==
    /\ pc = "attempt"
    /\ attempts < retry_times
    /\ failures < MaxFailures
    /\ \E kind \in FailureKinds :
         /\ outcomes' = Append(outcomes, [ok |-> FALSE, text |-> << >>, kind |-> kind])
         /\ extra_headers' = IF kind = "api" THEN request_headers(base_url)
                             ELSE extra_headers
         /\ api_failed_logged' = api_failed_logged + (IF kind = "api" THEN 1 ELSE 0)
         /\ errlog' = errlog \cup {"LLM call failed"}
                             \cup (IF kind = "api" THEN {"API request failed"} ELSE {})
    /\ llm_failed_logged' = llm_failed_logged + 1
    /\ sleeps' = sleeps + 1
    /\ failures' = failures + 1
    /\ attempts' = attempts + 1
    /\ IF attempts + 1 = retry_times
       THEN response' = << >> /\ pc' = "returned"
       ELSE response' = response /\ pc' = "attempt"
    /\ idx' = IF idx < Len(queue) THEN idx + 1 ELSE idx
    /\ img_path' = IF idx < Len(queue) THEN replace(queue[idx + 1], "\\", "/")
                   ELSE img_path
    /\ UNCHANGED <<envVars, base_url, argVars, inVars, fsVars, wkVars, mdVars,
                   outVars, uncaught, exit_code>>

\* Variant of AttemptRaises whose client raises API failures without
\* logging them.
AttemptRaises_ClientSilent ==
    /\ pc = "attempt"
    /\ attempts < retry_times
    /\ failures < MaxFailures
    /\ \E kind \in FailureKinds :
         /\ outcomes' = Append(outcomes, [ok |-> FALSE, text |-> << >>, kind |-> kind])
         /\ extra_headers' = IF kind = "api" THEN request_headers(base_url)
                             ELSE extra_headers
         /\ api_failed_logged' = api_failed_logged
         /\ errlog' = errlog \cup {"LLM call failed"}
    /\ llm_failed_logged' = llm_failed_logged + 1
    /\ sleeps' = sleeps + 1
    /\ failures' = failures + 1
    /\ attempts' = attempts + 1
    /\ IF attempts + 1 = retry_times
       THEN response' = << >> /\ pc' = "returned"
       ELSE response' = response /\ pc' = "attempt"
    /\ UNCHANGED <<envVars, base_url, argVars, inVars, fsVars, wkVars, loopVars, mdVars,
                   outVars, uncaught, exit_code>>

\* Variant of AttemptRaises that sleeps only when another attempt follows.
AttemptRaises_NoSleepAfterLast ==
    /\ pc = "attempt"
    /\ attempts < retry_times
    /\ failures < MaxFailures
    /\ \E kind \in FailureKinds :
         /\ outcomes' = Append(outcomes, [ok |-> FALSE, text |-> << >>, kind |-> kind])
         /\ extra_headers' = IF kind = "api" THEN request_headers(base_url)
                             ELSE extra_headers
         /\ api_failed_logged' = api_failed_logged + (IF kind = "api" THEN 1 ELSE 0)
         /\ errlog' = errlog \cup {"LLM call failed"}
                             \cup (IF kind = "api" THEN {"API request failed"} ELSE {})
    /\ llm_failed_logged' = llm_failed_logged + 1
    /\ sleeps' = IF attempts + 1 = retry_times THEN sleeps ELSE sleeps + 1
    /\ failures' = failures + 1
    /\ attempts' = attempts + 1
    /\ IF attempts + 1 = retry_times
       THEN response' = << >> /\ pc' = "returned"
       ELSE response' = response /\ pc' = "attempt"
    /\ UNCHANGED <<envVars, base_url, argVars, inVars, fsVars, wkVars, loopVars, mdVars,
                   outVars, uncaught, exit_code>>

\* Lines 60-68: client.completion raises; the handler logs the failure and
\* sleeps; after the last iteration the loop ends and "" is returned.
AttemptRaises ==
    /\ pc = "attempt"
    /\ attempts < retry_times
    /\ failures < MaxFailures
    /\ \E kind \in FailureKinds :
         /\ outcomes' = Append(outcomes, [ok |-> FALSE, text |-> << >>, kind |-> kind])
         /\ extra_headers' = IF kind = "api" THEN request_headers(base_url)
                             ELSE extra_headers
         /\ api_failed_logged' = api_failed_logged + (IF kind = "api" THEN 1 ELSE 0)
         /\ errlog' = errlog \cup {"LLM call failed"}
                             \cup (IF kind = "api" THEN {"API request failed"} ELSE {})
    /\ llm_failed_logged' = llm_failed_logged + 1
    /\ sleeps' = sleeps + 1
    /\ failures' = failures + 1
    /\ attempts' = attempts + 1
    /\ IF attempts + 1 = retry_times
       THEN response' = << >> /\ pc' = "returned"
       ELSE response' = response /\ pc' = "attempt"
    /\ UNCHANGED <<envVars, base_url, argVars, inVars, fsVars, wkVars, loopVars, mdVars,
                   outVars, uncaught, exit_code>>

\* Every attempt the for loop allows has been made and has failed.
Exhausted ==
    /\ Len(outcomes) = retry_times
    /\ \A j \in 1..Len(outcomes) : ~outcomes[j].ok

\* Variant of AppendFragment that appends nothing, not even the separator,
\* for an empty response.
AppendFragment_DropsEmpty ==
    /\ pc = "returned"
    /\ markdown' = IF response = << >> THEN markdown
                   ELSE markdown \o remove_markdown_warp(response, Markdown)
                                 \o <<"\n", "\n">>
    /\ processed' = Append(processed, [path |-> queue[idx],
                                        exhausted |-> Exhausted])
    /\ idx' = idx + 1
    /\ pc' = "loop"
    /\ attempts' = 0 /\ outcomes' = << >> /\ sleeps' = 0
    /\ llm_failed_logged' = 0 /\ api_failed_logged' = 0
    /\ response' = << >>
    /\ UNCHANGED <<envVars, clientVars, argVars, inVars, fsVars, wkVars, img_path, failures, outVars, endVars>>

\* Variant of AppendFragment that prints each fragment as soon as it has it.
AppendFragment_PrintsAtOnce ==
    /\ pc = "returned"
    /\ markdown' = markdown \o remove_markdown_warp(response, Markdown)
                            \o <<"\n", "\n">>
    /\ stdout' = stdout \o remove_markdown_warp(response, Markdown)
                        \o <<"\n", "\n">>
    /\ processed' = Append(processed, [path |-> queue[idx],
                                        exhausted |-> Exhausted])
    /\ idx' = idx + 1
    /\ pc' = "loop"
    /\ attempts' = 0 /\ outcomes' = << >> /\ sleeps' = 0
    /\ llm_failed_logged' = 0 /\ api_failed_logged' = 0
    /\ response' = << >>
    /\ UNCHANGED <<envVars, clientVars, argVars, inVars, fsVars, wkVars, img_path, failures, out_file, endVars>>

\* Lines 86-87 and 195-196: the response is unwrapped and appended with its
\* separator, and the loop moves on; the locals of the completion() call
\* that has returned are gone.
AppendFragment ==
    /\ pc = "returned"
    /\ markdown' = markdown \o remove_markdown_warp(response, Markdown)
                            \o <<"\n", "\n">>
    /\ processed' = Append(processed, [path |-> queue[idx],
                                        exhausted |-> Exhausted])
    /\ idx' = idx + 1
    /\ pc' = "loop"
    /\ attempts' = 0 /\ outcomes' = << >> /\ sleeps' = 0
    /\ llm_failed_logged' = 0 /\ api_failed_logged' = 0
    /\ response' = << >>
    /\ UNCHANGED <<envVars, clientVars, argVars, inVars, fsVars, wkVars, img_path, failures, outVars, endVars>>

\* Line 197: the loop is over.
LoopDone ==
    /\ pc = "loop"
    /\ idx > Len(queue)
    /\ pc' = "output"
    /\ UNCHANGED <<envVars, clientVars, argVars, inVars, fsVars, wkVars, loopVars,
                   callVars, failures, mdVars, outVars, endVars>>

(***************************************************************************)
(* Lines 199-209: output, cleanup, exit                                    *)
(***************************************************************************)

\* Lines 199-205.
Output ==
    /\ pc = "output"
    /\ IF output_path # None
       THEN /\ out_file' = [exists |-> TRUE, text |-> markdown]
            /\ UNCHANGED stdout
       ELSE /\ stdout' = stdout \o markdown \o <<"\n">>
            /\ UNCHANGED out_file
    /\ pc' = "cleanup"
    /\ UNCHANGED <<envVars, clientVars, argVars, inVars, fsVars, wkVars, loopVars,
                   callVars, failures, mdVars, endVars>>

\* Lines 207-209.
Cleanup ==
    /\ pc = "cleanup"
    /\ output_dir_exists' = FALSE
    /\ temp_input_exists' = FALSE
    /\ Exit(0, {})
    /\ UNCHANGED <<envVars, clientVars, argVars, inVars, wkVars, loopVars, callVars,
                   failures, mdVars, outVars>>

Next ==
    \/ ParseArgs
    \/ ReadInput
    \/ MakeOutputDir
    \/ Classify
    \/ Materialize
    \/ CreateWorker
    \/ ConvertToImages
    \/ NextPage
    \/ AttemptReturns
    \/ AttemptRaises
    \/ AppendFragment
    \/ LoopDone
    \/ Output
    \/ Cleanup

Spec == Init /\ [][Next]_vars

(***************************************************************************)
(* The completion client over the base URLs an operator may configure      *)
(***************************************************************************)

\* A completion() call about to build its client, for any OPENAI_API_BASE.
UrlInit ==
    /\ pc = "new_client"
    /\ api_key = TRUE
    /\ api_base \in BaseUrls
    /\ InitRun

\* main.py lines 40-58 and LLMClient.__init__ lines 21-31.
NewClient ==
    /\ pc = "new_client"
    /\ base_url' = normalize(api_base)
    /\ pc' = "request"
    /\ UNCHANGED <<envVars, extra_headers, argVars, inVars, fsVars, wkVars,
                   loopVars, callVars, failures, mdVars, outVars, endVars>>

\* LLMClient.completion lines 79-98: the request goes out.
SendRequest ==
    /\ pc = "request"
    /\ extra_headers' = request_headers(base_url)
    /\ pc' = "sent"
    /\ UNCHANGED <<envVars, base_url, argVars, inVars, fsVars, wkVars,
                   loopVars, callVars, failures, mdVars, outVars, endVars>>

UrlNext == NewClient \/ SendRequest

UrlSpec == UrlInit /\ [][UrlNext]_vars

(***************************************************************************)
(* Properties                                                              *)
(***************************************************************************)

\* The attempts of the current completion call that failed.
FailedAttempts == {j \in 1..Len(outcomes) : ~outcomes[j].ok}

\* C1: when the client fails on attempts 1..k-1 and succeeds on attempt k
\* (k <= 3), completion() returns the response of attempt k, has slept
\* exactly k-1 times, and makes no attempt after k.
C1_SuccessPath ==
    \A k \in 1..Len(outcomes) :
        outcomes[k].ok =>
            /\ k <= retry_times
            /\ FailedAttempts = 1..(k - 1)
            /\ Len(outcomes) = k
            /\ attempts = k
            /\ pc # "attempt"
            /\ response = outcomes[k].text
            /\ sleeps = k - 1

\* C1 witness: fail, fail, succeed has returned the response after 2 sleeps.
C1_Witness ==
    /\ pc = "returned"
    /\ Len(outcomes) = 3
    /\ ~outcomes[1].ok /\ ~outcomes[2].ok /\ outcomes[3].ok
    /\ response = RespPlain
    /\ sleeps = 2

\* C2: when the client fails on all 3 attempts for a page, completion() has
\* made exactly 3 attempts and makes no more, returns "" without raising,
\* and the orchestrator has logged exactly 3 failures for that page.
C2_Exhaustion ==
    /\ Len(outcomes) <= retry_times
    /\ attempts = Len(outcomes)
    /\ Cardinality(FailedAttempts) = retry_times =>
           /\ attempts = 3
           /\ pc # "attempt"
           /\ response = << >>
           /\ llm_failed_logged = 3
           /\ uncaught = NoException

\* C2 witness: a call that has returned after three failed attempts.
C2_Witness ==
    /\ pc = "returned"
    /\ Cardinality(FailedAttempts) = 3
    /\ response = << >>
    /\ llm_failed_logged = 3

\* What the loop has assembled from the pages it has processed: RespPlain
\* (every response of the model unwraps to it) or, for a page whose retries
\* were exhausted, nothing; each followed by two newlines.
RECURSIVE Assembled(_)
Assembled(pages) ==
    IF pages = << >> THEN << >>
    ELSE Assembled(SubSeq(pages, 1, Len(pages) - 1))
         \o (IF pages[Len(pages)].exhausted THEN << >> ELSE RespPlain)
         \o <<"\n", "\n">>

SomePageExhausted == \E k \in 1..Len(processed) : processed[k].exhausted

\* C3: a page whose retries are exhausted does not abort the run: it
\* contributes an empty fragment and its two-newline separator, the later
\* pages are processed, and the run exits with code 0; two pages, "# A"
\* then exhaustion, assemble to "# A\n\n\n\n".
C3_SilentDegradation ==
    /\ markdown = Assembled(processed)
    /\ (Exhausted \/ SomePageExhausted) =>
           /\ uncaught = NoException
           /\ pc = "exited" =>
                  /\ exit_code = 0
                  /\ Len(processed) = Len(queue)
                  /\ (out_file.exists \/ stdout # << >>)
    /\ ( /\ Len(processed) = 2
         /\ ~processed[1].exhausted
         /\ processed[2].exhausted ) =>
           markdown = <<"#", " ", "A", "\n", "\n", "\n", "\n">>

\* C3 witness: a two-page run, page 1 transcribed and page 2 exhausted, has
\* exited with code 0 and that Markdown written.
C3_Witness ==
    /\ pc = "exited" /\ exit_code = 0
    /\ Len(queue) = 2 /\ Len(processed) = 2
    /\ ~processed[1].exhausted /\ processed[2].exhausted
    /\ out_file = [exists |-> TRUE,
                   text |-> <<"#", " ", "A", "\n", "\n", "\n", "\n">>]

\* C4 (as claimed): with the API key absent the process exits before the
\* working directory is created, the input is materialized or the
\* collaborator renders.
C4_MissingKeyBeforeWork ==
    ~api_key =>
        /\ ~output_dir_exists
        /\ ~temp_input_exists
        /\ ~worker_created
        /\ ~rendered

\* C5 (as claimed): whenever the process has exited, the working directory
\* is gone.
C5_WorkingDirRemoved ==
    pc = "exited" => ~output_dir_exists /\ ~temp_input_exists

HasOutput == out_file.exists \/ stdout # << >>

\* C6: a run that ends in a fatal error (exit code other than 0) has written
\* no output file and printed nothing; output exists only once every
\* rendered page has been through its retry loop.
C6_NoPartialOutput ==
    /\ (pc = "exited" /\ exit_code # 0) => ~HasOutput
    /\ HasOutput =>
           /\ rendered
           /\ Len(processed) = Len(queue)
           /\ pc \in {"cleanup", "exited"}

\* C6 witness: a run that died of the missing API key after rendering, with
\* no output.
C6_Witness ==
    /\ pc = "exited" /\ exit_code = 1
    /\ rendered
    /\ "Please set the OPENAI_API_KEY environment variables" \in errlog
    /\ ~HasOutput

\* The path of the k-th processed page.
ProcessedPath(k) == processed[k].path

Elements(l) == {l[k] : k \in 1..Len(l)}

PageFile(path, n) ==
    endswith(path, <<"p", "a", "g", "e", "_">> \o n \o <<".", "p", "n", "g">>)

\* C7: whatever order the collaborator returns the paths in, the pages are
\* processed in lexicographic order of the returned paths (page_1.png, then
\* page_10.png, then page_2.png).
C7_LexicographicOrder ==
    /\ rendered => /\ Len(queue) = Len(img_paths)
                   /\ Elements(queue) = Elements(img_paths)
    /\ \A k \in 1..Len(processed) : ProcessedPath(k) = queue[k]
    /\ \A k \in 1..(Len(processed) - 1) :
         str_lt(ProcessedPath(k), ProcessedPath(k + 1))
    /\ \A j, k \in 1..Len(processed) :
         /\ (PageFile(ProcessedPath(j), <<"1">>)
               /\ PageFile(ProcessedPath(k), <<"1", "0">>)) => j < k
         /\ (PageFile(ProcessedPath(j), <<"1", "0">>)
               /\ PageFile(ProcessedPath(k), <<"2">>)) => j < k

\* C7 witness: the collaborator returned page_2.png first, and page_1.png,
\* page_10.png, page_2.png have been processed in that order.
C7_Witness ==
    /\ Len(img_paths) >= 3
    /\ PageFile(img_paths[1], <<"2">>)
    /\ Len(processed) >= 3
    /\ PageFile(ProcessedPath(1), <<"1">>)
    /\ PageFile(ProcessedPath(2), <<"1", "0">>)
    /\ PageFile(ProcessedPath(3), <<"2">>)

\* C8 (as claimed): the fragments are appended in ascending page order.
C8_AscendingPageOrder ==
    \A j, k \in 1..Len(processed) :
        j < k => page_number(ProcessedPath(j)) < page_number(ProcessedPath(k))

\* The signature table of the specification: %PDF-, FF D8 FF DB,
\* 89 50 4E 47, 42 4D.
SignatureTable ==
    { [sig |-> <<37, 80, 68, 70, 45>>,   ext |-> <<".", "p", "d", "f">>],
      [sig |-> <<255, 216, 255, 219>>,   ext |-> <<".", "j", "p", "g">>],
      [sig |-> <<137, 80, 78, 71>>,      ext |-> <<".", "p", "n", "g">>],
      [sig |-> <<66, 77>>,               ext |-> <<".", "b", "m", "p">>] }

SignaturesOf(data) == {e \in SignatureTable : startswith(data, e.sig)}

\* The input has been through the classifier (and was accepted by it).
Classified ==
    pc \in {"materialize", "create_worker", "convert_to_images", "loop",
            "attempt", "returned", "output", "cleanup"}
    \/ (pc = "exited" /\ temp_input_exists)
    \/ (pc = "exited" /\ exit_code = 0)

\* C9 (as claimed): a recognized extension decides the type; in every other
\* case, an unrecognized extension included, a matching signature does.
C9_SniffUnlessRecognized ==
    Classified =>
        IF splitext_ext(input_filename) \in RecognizedExts
        THEN input_ext = splitext_ext(input_filename)
        ELSE \A e \in SignaturesOf(input_data) : input_ext = e.ext

\* C9 (amended): an extension of the file name, recognized or not, decides
\* the type unless the input came from standard input; only without an
\* extension, or from standard input, a matching signature decides it.
C9_SniffOnlyWithoutExtension ==
    Classified =>
        IF splitext_ext(input_filename) # << >> /\ input_filename # StdinName
        THEN input_ext = splitext_ext(input_filename)
        ELSE /\ SignaturesOf(input_data) # {}
             /\ \A e \in SignaturesOf(input_data) : input_ext = e.ext

\* C9 witness: a.txt holding a PDF went on as .txt, never sniffed.
C9_Witness ==
    /\ Classified
    /\ input_filename = FileTxt
    /\ startswith(input_data, <<37, 80, 68, 70, 45>>)
    /\ input_ext = <<".", "t", "x", "t">>

\* Neither the extension of the file name nor the leading bytes match a
\* recognized type (once the input has been read).
Unsupported ==
    /\ input_filename # << >>
    /\ splitext_ext(input_filename) \notin RecognizedExts
    /\ SignaturesOf(input_data) = {}

\* C10: with an unsupported input the process gets no further than the
\* creation of the worker: nothing is rendered, no completion call is made,
\* no Markdown is produced, and when it has exited the code is 1.
C10_UnsupportedFatal ==
    Unsupported =>
        /\ pc \in {"make_output_dir", "classify", "materialize",
                   "create_worker", "exited"}
        /\ ~worker_created /\ ~rendered
        /\ img_path = << >> /\ attempts = 0 /\ outcomes = << >>
        /\ markdown = << >> /\ ~HasOutput
        /\ pc = "exited" => exit_code = 1

\* C10 witness: bytes of no known signature from standard input ended the
\* run with "Unsupported file type" and code 1.
C10_Witness ==
    /\ Unsupported
    /\ input_filename = StdinName
    /\ pc = "exited" /\ exit_code = 1
    /\ "Unsupported file type" \in errlog

UrlHost == <<"h", "t", "t", "p", "s", ":", "/", "/", "h", "o", "s", "t">>

\* C11: normalizing an already-normalized URL yields the same URL, for every
\* base URL; https://host/v1/models, https://host and https://host/ all
\* normalize to https://host/v1.
C11_Idempotent ==
    base_url # None =>
        /\ normalize(base_url) = base_url
        /\ api_base \in {UrlHost \o SlashV1 \o SlashModels, UrlHost,
                         UrlHost \o <<"/">>} =>
               base_url = UrlHost \o SlashV1

\* C11 witness: the client built for https://host/v1/models has
\* https://host/v1, and has sent a request.
C11_Witness ==
    /\ pc = "sent"
    /\ api_base = UrlHost \o SlashV1 \o SlashModels
    /\ base_url = UrlHost \o SlashV1

\* The base URL without a trailing /models.
WithoutTrailingModels(url) ==
    IF endswith(url, SlashModels)
    THEN SubSeq(url, 1, Len(url) - Len(SlashModels)) ELSE url

\* C13 (as claimed): what precedes a trailing /models (the whole URL when it
\* has no such suffix) is kept unchanged, and the result is that part if it
\* ends in /v1, else that part with /v1 appended after a slash added only if
\* absent; /models elsewhere in the URL is not cut.
C13_TrailingModelsOnly ==
    (base_url # None /\ api_base # None
        /\ WithoutTrailingModels(api_base) # << >>) =>
        LET kept == WithoutTrailingModels(api_base)
        IN  base_url = IF endswith(kept, SlashV1) THEN kept
                       ELSE IF endswith(kept, <<"/">>) THEN kept \o <<"v", "1">>
                       ELSE kept \o SlashV1

\* The host of a URL: what lies between "://" and the next "/".
url_host(url) ==
    LET at   == find(url, <<":", "/", "/">>)
        rest == IF at = 0 THEN url ELSE SubSeq(url, at + 3, Len(url))
    IN  split_first(rest, <<"/">>)

\* C16 (as claimed): a request carries X-Title and HTTP-Referer if and only
\* if the host of the normalized base URL is that of openrouter.ai.
C16_HeadersIffHost ==
    pc = "sent" =>
        (extra_headers = AppHeaders
            <=> contains(lower(url_host(base_url)), OpenRouter))

\* A page argument has not parsed as an integer: int() has raised ValueError
\* at lines 111-118 or 122-124.
InvalidPageArgument ==
    pc = "exited" /\ (uncaught = "ValueError" \/ "Invalid page number" \in errlog)

\* C12 (as claimed): in both invocation modes a page argument that does not
\* parse as an integer ends the run with the invalid-page-number error and
\* exit code 1, before the working directory exists and before any
\* rendering.
C12_InvalidPageNumber ==
    InvalidPageArgument =>
        /\ "Invalid page number" \in errlog
        /\ uncaught = NoException
        /\ exit_code = 1
        /\ ~output_dir_exists
        /\ ~worker_created /\ ~rendered

\* Line 181 is reached: create_worker is called with start_page, end_page.
HandedToCollaborator == pc = "create_worker"

\* C14 (as claimed): every (start, end) handed to the rendering collaborator
\* has start >= 1 and end = 0 or end >= start.
C14_PageRangeInvariant ==
    HandedToCollaborator =>
        /\ start_page >= 1
        /\ (end_page = 0 \/ end_page >= start_page)

\* C15: attempts are made for one page at a time: while a retry loop runs,
\* every page before the current one has been through its own loop and the
\* current one has not, each attempt has ended before the next one starts,
\* none follows a success, and the loop is left only by a success or with
\* the attempts exhausted; no attempt is pending outside a retry loop.
C15_Sequential ==
    /\ pc \in {"attempt", "returned"} =>
           /\ idx \in 1..Len(queue)
           /\ img_path = replace(queue[idx], "\\", "/")
           /\ Len(processed) = idx - 1
           /\ attempts = Len(outcomes)
           /\ \A j \in 1..(Len(outcomes) - 1) : ~outcomes[j].ok
    /\ pc = "attempt" => \A j \in 1..Len(outcomes) : ~outcomes[j].ok
    /\ pc = "returned" =>
           \/ outcomes[Len(outcomes)].ok
           \/ Exhausted
    /\ pc \notin {"attempt", "returned"} => attempts = 0 /\ outcomes = << >>
    /\ \A k \in 1..Len(processed) : processed[k].path = queue[k]

\* C15 witness: the second page is in its retry loop after a failed attempt,
\* the first page having left its own by a success after a failure.
C15_Witness ==
    /\ pc = "attempt"
    /\ idx = 2
    /\ Len(processed) = 1 /\ ~processed[1].exhausted
    /\ attempts = 1 /\ FailedAttempts = {1}
    /\ failures = 2

\* The failed attempts whose failure arose in the API call of the client.
ApiFailures == {j \in FailedAttempts : outcomes[j].kind = "api"}

\* C17 (as claimed): every failure inside client.completion is logged by
\* the client and raised to the caller, one client call per attempt.
C17_EveryFailureLogged ==
    /\ api_failed_logged = Cardinality(FailedAttempts)
    /\ llm_failed_logged = Cardinality(FailedAttempts)
    /\ attempts = Len(outcomes)

\* C17 (amended): the client logs the failures of the API call, and only
\* those; a failure to read or encode the image is not logged by the client;
\* every failure of either kind reaches the caller, which logs it, and the
\* client is called once per attempt.
C17_ApiFailuresLogged ==
    /\ api_failed_logged = Cardinality(ApiFailures)
    /\ (ApiFailures # {} => "API request failed" \in errlog)
    /\ llm_failed_logged = Cardinality(FailedAttempts)
    /\ (FailedAttempts # {} => "LLM call failed" \in errlog)
    /\ attempts = Len(outcomes)

\* C17 witness: one failure of the API call and one of encode_image have
\* been raised; the client has logged one, the caller both.
C17_Witness ==
    /\ Len(outcomes) = 2
    /\ outcomes[1].kind = "api" /\ outcomes[2].kind = "encode_image"
    /\ api_failed_logged = 1
    /\ llm_failed_logged = 2

\* C18: at every point of a retry loop the sleeps done equal the failed
\* attempts so far; three failures have cost three sleeps when "" is
\* returned.
C18_BackoffAccounting ==
    /\ sleeps = Cardinality(FailedAttempts)
    /\ (pc = "returned" /\ Exhausted) =>
           sleeps = retry_times /\ response = << >>

\* C18 witness: "" is returned after three failures and three sleeps.
C18_Witness ==
    /\ pc = "returned"
    /\ Exhausted
    /\ sleeps = 3
    /\ response = << >>

\* The client calls of a run that has ended: one per failure, and one more
\* for each page whose loop ended by a success.
completion_calls ==
    failures + Cardinality({k \in 1..Len(processed) : ~processed[k].exhausted})

\* C19 (as claimed): a run that has rendered N pages ends having made
\* between N and 3*N completion calls, through the output step.
C19_BoundedTermination ==
    (pc = "exited" /\ rendered) =>
        /\ Len(queue) <= completion_calls
        /\ completion_calls <= retry_times * Len(queue)
        /\ HasOutput
        /\ exit_code = 0

=============================================================================
